---- MODULE Spec2Model ----
(***************************************************************************)
(* Boog Chat backend (src/app.py): the /chat handler, the canned quote     *)
(* bank, the search endpoint chain search_web, the instant-answer parser   *)
(* _parse_ddg_instant_answer and generate_ai_response.                     *)
(*                                                                         *)
(* A Python str is a sequence of chunks.  A chunk is a one-character       *)
(* string where the code looks at characters (strip, lower, split) and a   *)
(* literal block of text otherwise.  The chunk "EN DASH" stands for the    *)
(* character U+2013 of the separator at app.py:134; the typographic        *)
(* apostrophe and dash inside the fixed texts are written in ASCII.        *)
(* A JSON value that the code may find to be of the wrong type is a        *)
(* record [t |-> type, v |-> value]; a dict is a function on its keys.     *)
(***************************************************************************)
EXTENDS Integers, Sequences, FiniteSets, TLC

VARIABLES
    env,          \* os.environ: a function on the names that are set
    request,      \* history: the JSON body of the request
    logFile,      \* /tmp/boog_log.json: [exists, valid, data]
    pc,           \* position of the running call
    stack,        \* the call stack, outermost first
    user_input,   \* chat: user_input (app.py:242)
    mode,         \* chat: mode (app.py:243, 250)
    query,        \* search_web: query
    max_results,  \* search_web: max_results
    endpoints,    \* search_web: endpoints (app.py:151-164)
    idx,          \* search_web: position of the for loop in endpoints
    contacted,    \* history: every _http_get_json call of the run, in order
    search_ret,   \* the value search_web returned
    context,      \* generate_ai_response: context (app.py:197)
    user_prompt,  \* generate_ai_response: user_prompt (app.py:207)
    llmSent,      \* history: every openai.chat.completions.create call
    boog_response,\* chat: boog_response
    http_status,  \* 0 while the request runs, then 200 or 500
    response,     \* the body's "response" field once http_status = 200
    exc,          \* the exception that left the handler ("" for none)
    payload,      \* _parse_ddg_instant_answer: payload
    results       \* _parse_ddg_instant_answer: results

vars == <<env, request, logFile, pc, stack, user_input, mode, query, max_results,
          endpoints, idx, contacted, search_ret, context, user_prompt,
          llmSent, boog_response, http_status, response, exc, payload,
          results>>

(***************************************************************************)
(* Bounds of the model.                                                    *)
(***************************************************************************)
MaxItems == 9        \* longest "results" array an endpoint returns
MaxResultsArg == 3   \* largest max_results of a direct search_web call
MaxPrior == 1        \* entries already in the log file
MaxTopics == 2       \* longest RelatedTopics array
MaxSub == 2          \* longest nested Topics array

(***************************************************************************)
(* Python built-ins the code uses.                                         *)
(***************************************************************************)
Min(a, b) == IF a <= b THEN a ELSE b
Max(a, b) == IF a >= b THEN a ELSE b

\* d.get(k, default) and "k in d" on a dict
Get(d, k, default) == IF k \in DOMAIN d THEN d[k] ELSE default

\* s[:n], negative n counted from the end
PySlice(s, n) ==
    IF n >= 0 THEN SubSeq(s, 1, Min(n, Len(s)))
    ELSE SubSeq(s, 1, Max(Len(s) + n, 0))

Whitespace == {" ", "\t", "\n"}

RECURSIVE LStrip(_)
LStrip(s) ==
    IF s # <<>> /\ Head(s) \in Whitespace THEN LStrip(Tail(s)) ELSE s

RECURSIVE RStrip(_)
RStrip(s) ==
    IF s # <<>> /\ s[Len(s)] \in Whitespace
    THEN RStrip(SubSeq(s, 1, Len(s) - 1)) ELSE s

\* str.strip()
Strip(s) == RStrip(LStrip(s))

UpperCase == <<"A","B","C","D","E","F","G","H","I","J","K","L","M",
               "N","O","P","Q","R","S","T","U","V","W","X","Y","Z">>
LowerCase == <<"a","b","c","d","e","f","g","h","i","j","k","l","m",
               "n","o","p","q","r","s","t","u","v","w","x","y","z">>

LowerChar(c) ==
    IF \E i \in DOMAIN UpperCase : UpperCase[i] = c
    THEN LowerCase[CHOOSE i \in DOMAIN UpperCase : UpperCase[i] = c]
    ELSE c

\* str.lower()
Lower(s) == [i \in DOMAIN s |-> LowerChar(s[i])]

\* whether sep occurs in s at position i
MatchAt(s, sep, i) ==
    /\ i + Len(sep) - 1 <= Len(s)
    /\ \A j \in 1..Len(sep) : s[i + j - 1] = sep[j]

RECURSIVE SplitScan(_, _, _)
SplitScan(s, sep, i) ==
    IF i > Len(s) THEN s
    ELSE IF MatchAt(s, sep, i) THEN SubSeq(s, 1, i - 1)
    ELSE SplitScan(s, sep, i + 1)

\* s.split(sep)[0]
SplitFirst(s, sep) == SplitScan(s, sep, 1)

\* a str of n copies of chunk c
Rep(c, n) == [i \in 1..n |-> c]

RECURSIVE Join(_, _)
\* sep.join(lines)
Join(lines, sep) ==
    IF lines = <<>> THEN <<>>
    ELSE IF Len(lines) = 1 THEN lines[1]
    ELSE lines[1] \o sep \o Join(Tail(lines), sep)

(***************************************************************************)
(* Constants of app.py.                                                    *)
(***************************************************************************)
WISDOM == <<"w","i","s","d","o","m">>
ROAST == <<"r","o","a","s","t">>
AI == <<"a","i">>

BOOG_QUOTES ==
    (WISDOM :> << <<"Sleep is the answer to most problems.">>,
                  <<"If it fits, sit. If it doesn't fit, sit anyway.">>,
                  <<"The humans rush, the cat observes.">>,
                  <<"Sometimes doing nothing is doing everything.">>,
                  <<"Patience is a purr-tue.">> >>)
    @@
    (ROAST :> << <<"That's your plan? I've seen mice with better strategy.">>,
                 <<"You're typing? Cute. Still won't fix your code.">>,
                 <<"Bold of you to assume anyone cares.">>,
                 <<"Wow. Even the litter box smells better than that idea.">>,
                 <<"You again? I was hoping for someone interesting.">> >>)

DEFAULT_MODE == WISDOM          \* payload.get("mode", "wisdom")
FALLBACK_MODE == ROAST          \* mode = "roast"

COMMUNITY_PROXY_URL == "https://ddg-webapp-search.vercel.app/api/search"
INSTANT_ANSWER_URL == "https://api.duckduckgo.com/"

AI_MAX_RESULTS == 8             \* search_web(question, max_results=8)
TITLE_MAX == 80                 \* [:80]
SEPARATOR == <<" ", "EN DASH", " ">>

NO_CONTEXT == <<"(No relevant results found.)">>
UNAVAILABLE ==
    <<"OPENAI_API_KEY is not set on the server - AI mode is temporarily unavailable.">>
NO_RESPONSE == <<"(No response from AI)">>
SYSTEM_PROMPT == <<"You are Boog, a sassy but helpful research cat. ...">>

(***************************************************************************)
(* JSON values and the inputs of the model.                                *)
(***************************************************************************)
JDict(d) == [t |-> "dict", v |-> d]
JList(l) == [t |-> "list", v |-> l]

\* a dict with key k when the optional o (a set of at most one value) is given
Opt(k, o) == [x \in (IF o = {} THEN {} ELSE {k}) |-> CHOOSE val \in o : TRUE]

\* bool(x) of a JSON list or dict
Truthy(j) == j.v # <<>>

Messages == { <<>>, <<" ">>, <<" ","h","i","\n">> }
Modes == { WISDOM, <<"W","i","s","d","o","m">>, ROAST, <<"R","O","A","S","T">>,
           AI, <<"A","I">>, <<"w","e","b">>, <<>> }

\* the JSON bodies of POST /chat (a body that is not JSON reads as {})
Bodies ==
    { Opt("message", m) @@ Opt("mode", md) :
        m \in {{}} \cup {{x} : x \in Messages},
        md \in {{}} \cup {{x} : x \in Modes} }

Envs ==
    { Opt("SEARCH_API_ENDPOINT", s) @@ Opt("OPENAI_API_KEY", k) :
        s \in {{}, {""}, {"https://search.example/api"}},
        k \in {{}, {""}, {"sk-test"}} }

PRIOR_ENTRY == [user |-> <<"h","i">>, boog |-> BOOG_QUOTES[WISDOM][1]]

\* the log file before the request: absent, not JSON, or a JSON array
LogFiles ==
    { [exists |-> FALSE, valid |-> FALSE, data |-> <<>>],
      [exists |-> TRUE, valid |-> FALSE, data |-> <<>>] }
    \cup { [exists |-> TRUE, valid |-> TRUE, data |-> Rep(PRIOR_ENTRY, n)] :
             n \in 0..MaxPrior }

\* result item j of the endpoint of the given kind
Item(kind, j) ==
    [title |-> <<"title ", kind, ToString(j)>>,
     snippet |-> <<"snippet ", kind, ToString(j)>>,
     url |-> <<"https://", kind, "/", ToString(j)>>]

ResultList(kind, n) == [j \in 1..n |-> Item(kind, j)]

\* what a generic or community-proxy endpoint may answer with status 200
GenericPayloads(kind) ==
    { JList(<<>>),
      JDict(<<>>),
      JDict("results" :> JDict("error" :> <<"rate limited">>)) }
    \cup { JDict("results" :> JList(ResultList(kind, n))) : n \in 0..MaxItems }

(***************************************************************************)
(* Instant-answer payloads.                                                *)
(***************************************************************************)
TextTwoSeps == <<"a"," ","EN DASH"," ","b"," ","EN DASH"," ","c">>
TextHyphen == <<"a"," ","-"," ","b">>
TextLong == Rep("x", TITLE_MAX + 1) \o <<" ","EN DASH"," ","y">>
TextLeadSep == <<" ","EN DASH"," ","z">>

Entry(text, url) == ("Text" :> text) @@ ("FirstURL" :> url)

FullEntries ==
    { Entry(TextTwoSeps, <<"u1">>), Entry(TextLong, <<"u2">>),
      Entry(TextHyphen, <<"u3">>), Entry(TextLeadSep, <<"u4">>) }

PartEntries ==
    { <<>>, "Text" :> TextHyphen, "FirstURL" :> <<"u5">> }

\* a nested entry without FirstURL, holding an entry two levels down
DeepEntry ==
    ("Text" :> TextHyphen) @@ ("Topics" :> << Entry(<<"d","e","e","p">>, <<"u6">>) >>)

SubEntries ==
    { Entry(TextTwoSeps, <<"u7">>), Entry(TextLong, <<"u8">>), DeepEntry }

SeqsUpTo(S, n) == UNION { [1..k -> S] : k \in 0..n }

TopEntries(maxSub) ==
    FullEntries \cup PartEntries
    \cup { "Topics" :> subs : subs \in SeqsUpTo(SubEntries, maxSub) }
    \cup { Entry(TextHyphen, <<"u9">>) @@ ("Topics" :> subs) :
             subs \in { <<>>, << Entry(TextTwoSeps, <<"u7">>) >> } }
    \cup { ("Text" :> TextHyphen) @@ ("Topics" :> << Entry(TextLong, <<"u8">>) >>) }

DDGPayloadsOf(maxTopics, maxSub) ==
    { <<>> }
    \cup { "RelatedTopics" :> topics :
             topics \in SeqsUpTo(TopEntries(maxSub), maxTopics) }

DDGPayloads == DDGPayloadsOf(MaxTopics, MaxSub)

\* the payloads the chain is run on: it reads only the parsed list
ChainDDGPayloads == DDGPayloadsOf(1, 1)

(***************************************************************************)
(* _parse_ddg_instant_answer (app.py:125-146).                             *)
(***************************************************************************)
\* the dict appended at app.py:133-137 and 141-145
MakeResult(topic) ==
    [title |-> PySlice(SplitFirst(topic["Text"], SEPARATOR), TITLE_MAX),
     snippet |-> topic["Text"],
     url |-> topic["FirstURL"]]

HasTextAndURL(topic) == "Text" \in DOMAIN topic /\ "FirstURL" \in DOMAIN topic

RECURSIVE SubLoop(_, _, _)
\* for sub in topic["Topics"], from position j, appending to acc
SubLoop(subs, j, acc) ==
    IF j > Len(subs) THEN acc
    ELSE IF HasTextAndURL(subs[j])
         THEN SubLoop(subs, j + 1, Append(acc, MakeResult(subs[j])))
         ELSE SubLoop(subs, j + 1, acc)

\* TopicStep with "if" where app.py:138 has "elif"
TopicStepBoth(topic, acc) ==
    LET top == IF HasTextAndURL(topic) THEN Append(acc, MakeResult(topic)) ELSE acc
    IN IF "Topics" \in DOMAIN topic THEN SubLoop(topic["Topics"], 1, top) ELSE top

\* one pass of the body of the outer loop on topic
TopicStep(topic, acc) ==
    IF HasTextAndURL(topic) THEN Append(acc, MakeResult(topic))
    ELSE IF "Topics" \in DOMAIN topic THEN SubLoop(topic["Topics"], 1, acc)
    ELSE acc

RECURSIVE TopicLoop(_, _, _)
\* for topic in payload.get("RelatedTopics", []), from position i
TopicLoop(topics, i, acc) ==
    IF i > Len(topics) THEN acc
    ELSE TopicLoop(topics, i + 1, TopicStep(topics[i], acc))

_parse_ddg_instant_answer(p) == TopicLoop(Get(p, "RelatedTopics", <<>>), 1, <<>>)

(***************************************************************************)
(* search_web (app.py:149-184).                                            *)
(***************************************************************************)
\* BuildEndpoints with the operator's endpoint appended last
BuildEndpointsAppended(e) ==
    << [url |-> COMMUNITY_PROXY_URL, kind |-> "community_proxy"],
       [url |-> INSTANT_ANSWER_URL, kind |-> "instant_answer"] >>
    \o (IF Get(e, "SEARCH_API_ENDPOINT", "") # ""
        THEN << [url |-> e["SEARCH_API_ENDPOINT"], kind |-> "generic"] >>
        ELSE <<>>)

\* app.py:151-164
BuildEndpoints(e) ==
    (IF Get(e, "SEARCH_API_ENDPOINT", "") # ""
     THEN << [url |-> e["SEARCH_API_ENDPOINT"], kind |-> "generic"] >>
     ELSE <<>>)
    \o << [url |-> COMMUNITY_PROXY_URL, kind |-> "community_proxy"],
          [url |-> INSTANT_ANSWER_URL, kind |-> "instant_answer"] >>

\* what requests.get, raise_for_status and resp.json may raise (app.py:104-109)
HTTP_ERRORS == {"ConnectionError", "HTTPError", "JSONDecodeError"}

\* the outcomes of one _http_get_json call: it raises, or returns the JSON
\* value the endpoint sent (a JSON array stands for any value that is no dict)
_http_get_json(kind) ==
    { [raised |-> e, payload |-> JList(<<>>)] : e \in HTTP_ERRORS }
    \cup { [raised |-> "", payload |-> p] :
             p \in IF kind = "instant_answer"
                   THEN { JList(<<>>) } \cup { JDict(d) : d \in ChainDDGPayloads }
                   ELSE GenericPayloads(kind) }

\* params of the call (app.py:169, 172)
Params(kind, q, mr) ==
    IF kind = "instant_answer"
    THEN ("q" :> q) @@ ("format" :> <<"json">>)
    ELSE ("q" :> q) @@ ("max_results" :> <<ToString(mr)>>)

Continue == [returns |-> FALSE, raises |-> "", value |-> <<>>]
Return(value) == [returns |-> TRUE, raises |-> "", value |-> value]
Raise(e) == [returns |-> FALSE, raises |-> e, value |-> <<>>]

\* Catches with an except clause for the errors of requests only
CatchesTransportOnly(e) == e \in {"ConnectionError", "HTTPError"}

\* except Exception (app.py:179) catches every exception of the try block
Catches(e) == TRUE

\* app.py:179-181
OnException(e) == IF Catches(e) THEN Continue ELSE Raise(e)

\* results of the generic schema (app.py:170): payload.get raises
\* AttributeError on a payload that is no dict
GenericResults(o) ==
    IF o.payload.t # "dict" THEN [raised |-> "AttributeError", results |-> JList(<<>>)]
    ELSE [raised |-> "", results |-> Get(o.payload.v, "results", JList(<<>>))]

\* results of the instant-answer schema (app.py:173)
InstantResults(o) ==
    IF o.payload.t # "dict" THEN [raised |-> "AttributeError", results |-> JList(<<>>)]
    ELSE [raised |-> "", results |-> JList(_parse_ddg_instant_answer(o.payload.v))]

\* OnResults returning the list as received
OnResultsUncut(r, mr) ==
    IF r.raised # "" THEN OnException(r.raised)
    ELSE IF ~Truthy(r.results) THEN Continue
    ELSE IF r.results.t = "list" THEN Return(r.results.v)
    ELSE OnException("TypeError")

\* app.py:177-178: a truthy results is sliced and returned; slicing a dict
\* raises TypeError, which the except clause of app.py:179 catches
OnResults(r, mr) ==
    IF r.raised # "" THEN OnException(r.raised)
    ELSE IF ~Truthy(r.results) THEN Continue
    ELSE IF r.results.t = "list" THEN Return(PySlice(r.results.v, mr))
    ELSE OnException("TypeError")

\* the body of the for loop (app.py:167-181) on outcome o of the HTTP call
LoopBody(kind, o, mr) ==
    IF o.raised # "" THEN OnException(o.raised)
    ELSE IF kind \in {"generic", "community_proxy"} THEN OnResults(GenericResults(o), mr)
    ELSE IF kind = "instant_answer" THEN OnResults(InstantResults(o), mr)
    ELSE Continue

\* search_web returns value to its caller
SearchReturn(value) ==
    /\ search_ret' = value
    /\ stack' = SubSeq(stack, 1, Len(stack) - 1)
    /\ pc' = IF Len(stack) > 1 THEN stack[Len(stack) - 1] ELSE "returned"

\* an exception leaves search_web and every caller up to the HTTP layer
SearchRaise(e) ==
    /\ exc' = e
    /\ stack' = <<>>
    /\ pc' = IF Len(stack) > 1 THEN "done" ELSE "raised"
    /\ http_status' = IF Len(stack) > 1 THEN 500 ELSE http_status

\* one iteration of the for loop
SearchIterate ==
    /\ pc = "search_web"
    /\ idx <= Len(endpoints)
    /\ \E o \in _http_get_json(endpoints[idx].kind) :
         LET ep == endpoints[idx]
             r == LoopBody(ep.kind, o, max_results)
         IN /\ contacted' = Append(contacted,
                  [url |-> ep.url, kind |-> ep.kind,
                   params |-> Params(ep.kind, query, max_results),
                   raised |-> o.raised, payload |-> o.payload])
            /\ IF r.returns
               THEN SearchReturn(r.value) /\ UNCHANGED <<idx, exc, http_status>>
               ELSE IF r.raises # ""
               THEN SearchRaise(r.raises) /\ UNCHANGED <<idx, search_ret>>
               ELSE idx' = idx + 1
                    /\ UNCHANGED <<pc, stack, search_ret, exc, http_status>>
    /\ UNCHANGED <<env, request, logFile, user_input, mode, query, max_results,
                   endpoints, context, user_prompt, llmSent, boog_response,
                   response, payload, results>>

\* app.py:184, after the last endpoint
SearchExhausted ==
    /\ pc = "search_web"
    /\ idx > Len(endpoints)
    /\ SearchReturn(<<>>)
    /\ UNCHANGED <<env, request, logFile, user_input, mode, query, max_results,
                   endpoints, idx, contacted, context, user_prompt, llmSent,
                   boog_response, http_status, response, exc, payload, results>>

(***************************************************************************)
(* generate_ai_response (app.py:189-230).                                  *)
(***************************************************************************)
\* one line of context_lines (app.py:194)
ContextLine(res) ==
    <<"- ">> \o res.title \o <<": ">> \o res.snippet
    \o <<" (source: ">> \o res.url \o <<")">>

\* BuildContext without the placeholder of app.py:197
BuildContextNoPlaceholder(found) ==
    Join([i \in DOMAIN found |-> ContextLine(found[i])], <<"\n">>)

\* app.py:193-197
BuildContext(found) ==
    LET context_lines == [i \in DOMAIN found |-> ContextLine(found[i])]
    IN IF context_lines # <<>> THEN Join(context_lines, <<"\n">>) ELSE NO_CONTEXT

\* app.py:207-210
BuildUserPrompt(ctx, question) ==
    <<"Web context:", "\n">> \o ctx \o <<"\n", "\n", "User question: ">>
    \o question \o <<"\n", "\n", "Answer like a research agent cat.">>

\* KeyMissing that takes an unset variable for a key
KeyMissingEmptyOnly(e) == "OPENAI_API_KEY" \in DOMAIN e /\ e["OPENAI_API_KEY"] = ""

\* app.py:213-214: the key is missing when unset or empty
KeyMissing(e) == Get(e, "OPENAI_API_KEY", "") = ""

\* app.py:219-226
CompletionRequest(prompt) ==
    [model |-> "gpt-4o-mini",
     messages |-> << [role |-> "system", content |-> SYSTEM_PROMPT],
                     [role |-> "user", content |-> prompt] >>,
     temperature |-> "0.2"]

\* what the completion call may raise: a transport or a provider error
LLM_ERRORS == {"APIConnectionError", "APIStatusError"}

\* contents of the first choice of a reply
LLMContents == { <<>>, <<" ", "\n">>, <<" ", "Purr.", " ">> }

\* app.py:228-230
AnswerOf(content) ==
    LET answer == Strip(content)
    IN IF answer # <<>> THEN answer ELSE NO_RESPONSE

\* generate_ai_response(user_input) up to its call of search_web (app.py:192)
CallGenerate(question) ==
    /\ query' = question
    /\ max_results' = AI_MAX_RESULTS
    /\ endpoints' = BuildEndpoints(env)
    /\ idx' = 1
    /\ stack' = <<"chat", "generate_ai_response", "search_web">>
    /\ pc' = "search_web"

\* from the return of search_web to the credential check (app.py:193-217)
GenerateAfterSearch ==
    /\ pc = "generate_ai_response"
    /\ context' = BuildContext(search_ret)
    /\ user_prompt' = BuildUserPrompt(context', query)
    /\ IF KeyMissing(env)
       THEN /\ boog_response' = UNAVAILABLE
            /\ stack' = <<"chat">>
            /\ pc' = "log_chat"
       ELSE /\ pc' = "openai"
            /\ UNCHANGED <<boog_response, stack>>
    /\ UNCHANGED <<env, request, logFile, user_input, mode, query, max_results,
                   endpoints, idx, contacted, search_ret, llmSent,
                   http_status, response, exc, payload, results>>

\* the completion call returns (app.py:219-230)
OpenAIReturns ==
    /\ pc = "openai"
    /\ llmSent' = Append(llmSent, CompletionRequest(user_prompt))
    /\ \E content \in LLMContents : boog_response' = AnswerOf(content)
    /\ stack' = <<"chat">>
    /\ pc' = "log_chat"
    /\ UNCHANGED <<env, request, logFile, user_input, mode, query, max_results,
                   endpoints, idx, contacted, search_ret, context, user_prompt,
                   http_status, response, exc, payload, results>>

\* the completion call raises: nothing between app.py:219 and the HTTP layer
\* catches it, so the request ends with status 500
OpenAIRaises ==
    /\ pc = "openai"
    /\ llmSent' = Append(llmSent, CompletionRequest(user_prompt))
    /\ \E e \in LLM_ERRORS : exc' = e
    /\ http_status' = 500
    /\ stack' = <<>>
    /\ pc' = "done"
    /\ UNCHANGED <<env, request, logFile, user_input, mode, query, max_results,
                   endpoints, idx, contacted, search_ret, context, user_prompt,
                   boog_response, response, payload, results>>

(***************************************************************************)
(* chat (app.py:239-254) and log_chat (app.py:80-95).                      *)
(***************************************************************************)
\* QuoteMode falling back to the default mode of app.py:243
QuoteModeDefault(m) == IF m \notin DOMAIN BOOG_QUOTES THEN DEFAULT_MODE ELSE m

\* app.py:249-250
QuoteMode(m) == IF m \notin DOMAIN BOOG_QUOTES THEN FALLBACK_MODE ELSE m

\* IsAIMode sending every unrecognised mode to the language model
IsAIModeOrUnknown(m) == m = AI \/ m \notin DOMAIN BOOG_QUOTES

\* app.py:245
IsAIMode(m) == m = AI

\* POST /chat with JSON body, up to the call of log_chat (app.py:241-251)
Chat ==
    /\ pc = "idle"
    /\ \E body \in Bodies :
         LET input == Strip(Get(body, "message", <<>>))
             m == Lower(Get(body, "mode", DEFAULT_MODE))
         IN /\ request' = body
            /\ user_input' = input
            /\ IF IsAIMode(m)
               THEN /\ mode' = m
                    /\ CallGenerate(input)
                    /\ UNCHANGED boog_response
               ELSE /\ mode' = QuoteMode(m)
                    /\ \E i \in DOMAIN BOOG_QUOTES[QuoteMode(m)] :
                         boog_response' = BOOG_QUOTES[QuoteMode(m)][i]
                    /\ stack' = <<"chat">>
                    /\ pc' = "log_chat"
                    /\ UNCHANGED <<query, max_results, endpoints, idx>>
    /\ UNCHANGED <<env, logFile, contacted, search_ret, context, user_prompt,
                   llmSent, http_status, response, exc, payload, results>>

\* the entry log_chat appends (the timestamp is left out)
LogEntry(user_msg, boog_msg) == [user |-> user_msg, boog |-> boog_msg]

\* log_chat(user_input, boog_response) and the return (app.py:253-254):
\* a missing file is created, a file that is no JSON makes json.load raise
LogChat ==
    /\ pc = "log_chat"
    /\ stack' = <<>>
    /\ pc' = "done"
    /\ IF ~logFile.exists
       THEN /\ logFile' = [exists |-> TRUE, valid |-> TRUE,
                           data |-> <<LogEntry(user_input, boog_response)>>]
            /\ http_status' = 200
            /\ response' = boog_response
            /\ UNCHANGED exc
       ELSE IF ~logFile.valid
       THEN /\ exc' = "JSONDecodeError"
            /\ http_status' = 500
            /\ UNCHANGED <<logFile, response>>
       ELSE /\ logFile' = [logFile EXCEPT
                             !.data = Append(@, LogEntry(user_input, boog_response))]
            /\ http_status' = 200
            /\ response' = boog_response
            /\ UNCHANGED exc
    /\ UNCHANGED <<env, request, user_input, mode, query, max_results, endpoints, idx,
                   contacted, search_ret, context, user_prompt, llmSent,
                   boog_response, payload, results>>

(***************************************************************************)
(* Specifications.                                                         *)
(***************************************************************************)
Idle ==
    /\ request = <<>> /\ stack = <<>> /\ user_input = <<>> /\ mode = <<>> /\ query = <<>>
    /\ max_results = 0 /\ endpoints = <<>> /\ idx = 1 /\ contacted = <<>>
    /\ search_ret = <<>> /\ context = <<>> /\ user_prompt = <<>>
    /\ llmSent = <<>> /\ boog_response = <<>> /\ http_status = 0
    /\ response = <<>> /\ exc = "" /\ payload = <<>> /\ results = <<>>

\* one POST /chat against some environment and some log file
Init ==
    /\ env \in Envs
    /\ logFile \in LogFiles
    /\ pc = "idle"
    /\ Idle

Next ==
    \/ Chat
    \/ SearchIterate
    \/ SearchExhausted
    \/ GenerateAfterSearch
    \/ OpenAIReturns
    \/ OpenAIRaises
    \/ LogChat

Spec == Init /\ [][Next]_vars

\* one direct call search_web(query, max_results=n)
InitSearch ==
    /\ env \in { e \in Envs : "OPENAI_API_KEY" \notin DOMAIN e }
    /\ logFile = [exists |-> FALSE, valid |-> FALSE, data |-> <<>>]
    /\ pc = "search_web"
    /\ stack = <<"search_web">>
    /\ query = <<"c","a","t","s">>
    /\ max_results \in 0..MaxResultsArg
    /\ endpoints = BuildEndpoints(env)
    /\ idx = 1
    /\ request = <<>> /\ user_input = <<>> /\ mode = <<>> /\ contacted = <<>>
    /\ search_ret = <<>> /\ context = <<>> /\ user_prompt = <<>>
    /\ llmSent = <<>> /\ boog_response = <<>> /\ http_status = 0
    /\ response = <<>> /\ exc = "" /\ payload = <<>> /\ results = <<>>

NextSearch ==
    \/ SearchIterate
    \/ SearchExhausted

SpecSearch == InitSearch /\ [][NextSearch]_vars

\* one call _parse_ddg_instant_answer(payload)
InitParse ==
    /\ env = <<>>
    /\ logFile = [exists |-> FALSE, valid |-> FALSE, data |-> <<>>]
    /\ pc = "_parse_ddg_instant_answer"
    /\ payload \in DDGPayloads
    /\ stack = <<"_parse_ddg_instant_answer">>
    /\ request = <<>> /\ user_input = <<>> /\ mode = <<>> /\ query = <<>>
    /\ max_results = 0 /\ endpoints = <<>> /\ idx = 1 /\ contacted = <<>>
    /\ search_ret = <<>> /\ context = <<>> /\ user_prompt = <<>>
    /\ llmSent = <<>> /\ boog_response = <<>> /\ http_status = 0
    /\ response = <<>> /\ exc = "" /\ results = <<>>

ParseInstantAnswer ==
    /\ pc = "_parse_ddg_instant_answer"
    /\ results' = _parse_ddg_instant_answer(payload)
    /\ stack' = <<>>
    /\ pc' = "returned"
    /\ UNCHANGED <<env, request, logFile, user_input, mode, query, max_results,
                   endpoints, idx, contacted, search_ret, context, user_prompt,
                   llmSent, boog_response, http_status, response, exc, payload>>

NextParse == ParseInstantAnswer

SpecParse == InitParse /\ [][NextParse]_vars

(***************************************************************************)
(* What the claims speak of, stated apart from the code's own operators.   *)
(***************************************************************************)
\* the first n items of l
FirstN(l, n) == [i \in 1..(IF n < Len(l) THEN n ELSE Len(l)) |-> l[i]]

RECURSIVE Flat(_)
\* the concatenation of a sequence of sequences
Flat(ss) == IF ss = <<>> THEN <<>> ELSE Head(ss) \o Flat(Tail(ss))

\* the part of text before its first " EN DASH " separator
BeforeSeparator(text) ==
    LET hits == { i \in 1..(Len(text) - 2) :
                    text[i] = " " /\ text[i + 1] = "EN DASH" /\ text[i + 2] = " " }
    IN IF hits = {} THEN text
       ELSE FirstN(text, (CHOOSE i \in hits : \A j \in hits : i <= j) - 1)

Carries(entry) == {"Text", "FirstURL"} \subseteq DOMAIN entry

ItemOf(entry) ==
    [title |-> FirstN(BeforeSeparator(entry["Text"]), 80),
     snippet |-> entry["Text"],
     url |-> entry["FirstURL"]]

\* the items of the entries of seq that carry both fields, in order
ItemsOf(seq) ==
    Flat([i \in DOMAIN seq |-> IF Carries(seq[i]) THEN <<ItemOf(seq[i])>> ELSE <<>>])

NestedOf(entry) ==
    IF "Topics" \in DOMAIN entry THEN ItemsOf(entry["Topics"]) ELSE <<>>

TopicsOf(p) == IF "RelatedTopics" \in DOMAIN p THEN p["RelatedTopics"] ELSE <<>>

\* every top-level entry that carries both fields and every entry one level
\* down that carries both fields
FlattenAll(p) ==
    Flat([i \in DOMAIN TopicsOf(p) |->
            ItemsOf(<<TopicsOf(p)[i]>>) \o NestedOf(TopicsOf(p)[i])])

\* the same, without the entries under a top-level entry that itself
\* carries both fields
FlattenShapes(p) ==
    Flat([i \in DOMAIN TopicsOf(p) |->
            IF Carries(TopicsOf(p)[i]) THEN <<ItemOf(TopicsOf(p)[i])>>
            ELSE NestedOf(TopicsOf(p)[i])])

\* the result list an endpoint yielded at call c: none when the call raised
\* or the payload cannot be read as its schema
Yield(c) ==
    IF c.raised # "" \/ c.payload.t # "dict" THEN <<>>
    ELSE IF c.kind = "instant_answer" THEN FlattenShapes(c.payload.v)
    ELSE IF "results" \in DOMAIN c.payload.v /\ c.payload.v["results"].t = "list"
         THEN c.payload.v["results"].v
    ELSE <<>>

\* the endpoints in priority order
PriorityOrder ==
    (IF "SEARCH_API_ENDPOINT" \in DOMAIN env /\ env["SEARCH_API_ENDPOINT"] # ""
     THEN <<env["SEARCH_API_ENDPOINT"]>> ELSE <<>>)
    \o <<"https://ddg-webapp-search.vercel.app/api/search",
         "https://api.duckduckgo.com/">>

RequestMode ==
    IF "mode" \in DOMAIN request THEN Lower(request["mode"]) ELSE WISDOM

Range(f) == { f[i] : i \in DOMAIN f }

SearchFinished == pc \in {"returned", "raised"}

(***************************************************************************)
(* C1: a request whose lower-cased mode is "wisdom" or "roast" is answered *)
(* with an element of that mode's list of BOOG_QUOTES, and a request whose *)
(* mode is neither "ai" nor a key of BOOG_QUOTES with an element of the    *)
(* "roast" list.                                                           *)
(***************************************************************************)
C1_QuoteFromModeList ==
    (pc \in {"log_chat", "done"} /\ RequestMode # AI) =>
        LET list == IF RequestMode \in {WISDOM, ROAST}
                    THEN BOOG_QUOTES[RequestMode] ELSE BOOG_QUOTES[ROAST]
        IN /\ boog_response \in Range(list)
           /\ http_status = 200 => response \in Range(list)

C1_Witness ==
    /\ http_status = 200
    /\ "mode" \in DOMAIN request /\ request["mode"] = <<"w","e","b">>
    /\ response = <<"Bold of you to assume anyone cares.">>

(***************************************************************************)
(* C2: in a run of search_web the endpoints are contacted in the priority  *)
(* order (SEARCH_API_ENDPOINT if set, the community proxy, the instant-    *)
(* answer API), each at most once, and none after an endpoint has yielded  *)
(* a non-empty result list.                                                *)
(***************************************************************************)
C2_PriorityOrderNoRetry ==
    /\ Len(contacted) <= Len(PriorityOrder)
    /\ \A i \in DOMAIN contacted : contacted[i].url = PriorityOrder[i]
    /\ \A i \in DOMAIN contacted : i < Len(contacted) => Yield(contacted[i]) = <<>>
    /\ (SearchFinished /\ contacted # <<>> /\ Yield(contacted[Len(contacted)]) = <<>>)
           => Len(contacted) = Len(PriorityOrder)

C2_Witness ==
    /\ pc = "returned"
    /\ Len(PriorityOrder) = 3
    /\ Len(contacted) = 2
    /\ contacted[1].kind = "generic" /\ contacted[1].raised = "HTTPError"
    /\ contacted[2].kind = "community_proxy" /\ Yield(contacted[2]) # <<>>

C4_BlankMessageShortCircuits ==
    (pc # "idle" /\ Strip(Get(request, "message", <<>>)) = <<>>) =>
        /\ contacted = <<>>
        /\ llmSent = <<>>

(***************************************************************************)
(* C5: an error raised by the language-model call is caught and turned     *)
(* into a response string, so that every request ends with a response and  *)
(* no exception reaches the HTTP layer (the log file left aside).          *)
(***************************************************************************)
C5_EveryRequestReturns ==
    (pc = "done" /\ exc # "JSONDecodeError") => (http_status = 200 /\ exc = "")

(***************************************************************************)
(* C6: with OPENAI_API_KEY absent, generate_ai_response returns the fixed  *)
(* "unavailable" text and issues no network call.                          *)
(***************************************************************************)
KeyAbsent == "OPENAI_API_KEY" \notin DOMAIN env

GenerateReturned == RequestMode = AI /\ pc \in {"log_chat", "done"}

C6_NoNetworkCall ==
    (KeyAbsent /\ GenerateReturned) =>
        /\ boog_response = UNAVAILABLE
        /\ llmSent = <<>>
        /\ contacted = <<>>

\* C6 as amended: with OPENAI_API_KEY absent, generate_ai_response returns
\* the fixed "unavailable" text and never calls the language model; the
\* search endpoints have been contacted before the credential is looked at.
C6_NoModelCall ==
    /\ KeyAbsent => llmSent = <<>>
    /\ (KeyAbsent /\ GenerateReturned) =>
          /\ boog_response = UNAVAILABLE
          /\ contacted # <<>>
          /\ http_status = 200 => response = UNAVAILABLE

C6_Witness ==
    /\ KeyAbsent
    /\ RequestMode = AI
    /\ http_status = 200
    /\ response = UNAVAILABLE
    /\ Len(contacted) = 3

(***************************************************************************)
(* C7: in the web-grounded mode, when search_web returns the empty         *)
(* sequence, no grounded prompt is built and the language model is not     *)
(* called.                                                                 *)
(***************************************************************************)
SearchCameBackEmpty ==
    RequestMode = AI /\ pc \in {"openai", "log_chat", "done"} /\ search_ret = <<>>

Yielding == { i \in DOMAIN contacted : Yield(contacted[i]) # <<>> }

C8_FirstNonEmptyTruncated ==
    (SearchFinished /\ Yielding # {}) =>
        LET k == CHOOSE i \in Yielding : \A j \in Yielding : i <= j
        IN /\ pc = "returned"
           /\ search_ret = FirstN(Yield(contacted[k]), max_results)
           /\ max_results >= 1 =>
                (search_ret # <<>> /\ Len(search_ret) <= max_results)

C8_Witness ==
    /\ pc = "returned"
    /\ max_results = 2
    /\ Len(contacted) = 2
    /\ Len(Yield(contacted[2])) = 4
    /\ search_ret = <<Item("community_proxy", 1), Item("community_proxy", 2)>>

(***************************************************************************)
(* C9: _parse_ddg_instant_answer returns, in payload order, one item per   *)
(* top-level RelatedTopics entry carrying Text and FirstURL and one per    *)
(* entry one level down under a Topics array carrying both; each item has  *)
(* snippet = Text, url = FirstURL and as title the part of Text before the *)
(* first separator, cut to 80.                                             *)
(***************************************************************************)
Parsed == pc = "returned" /\ stack = <<>> /\ endpoints = <<>>

C9_FlattensEveryTopics ==
    Parsed => results = FlattenAll(payload)

\* C9 as amended: the entries one level down are taken only from a
\* top-level entry that does not itself carry both Text and FirstURL.
C9_FlattensTwoShapes ==
    Parsed => results = FlattenShapes(payload)

C9_Witness ==
    /\ Parsed
    /\ Len(TopicsOf(payload)) = 2
    /\ Carries(TopicsOf(payload)[1]) /\ "Topics" \in DOMAIN TopicsOf(payload)[1]
    /\ ~Carries(TopicsOf(payload)[2]) /\ "Topics" \in DOMAIN TopicsOf(payload)[2]
    /\ Len(results) = 3
    /\ Len(results[3].title) = 80 /\ Len(results[3].snippet) > 80
    /\ results[2].title = <<"a">>

(***************************************************************************)
(* C10: a request whose mode is not "ai" (an absent mode reads "wisdom")   *)
(* contacts no search endpoint and never calls the language model, and its *)
(* answer is a canned quote whatever the environment holds.                *)
(***************************************************************************)
C10_QuoteModesCallNothing ==
    (pc # "idle" /\ RequestMode # AI) =>
        /\ contacted = <<>>
        /\ llmSent = <<>>
        /\ pc # "search_web" /\ pc # "openai" /\ pc # "generate_ai_response"
        /\ boog_response \in Range(BOOG_QUOTES[WISDOM]) \cup Range(BOOG_QUOTES[ROAST])
        /\ pc = "done" =>
             \/ http_status = 200 /\ response = boog_response
             \/ exc = "JSONDecodeError" /\ ~logFile.valid

C10_Witness ==
    /\ env = <<>>
    /\ "mode" \notin DOMAIN request
    /\ http_status = 200
    /\ response \in Range(BOOG_QUOTES[WISDOM])
    /\ contacted = <<>> /\ llmSent = <<>>

====
